---- MODULE Spec2Model ----
(***************************************************************************)
(* Client-side conversion orchestration of Obsidian_Converter_Frontend:    *)
(* item normalisation (prepareItem), the batch / per-item decision,        *)
(* request dispatch (ConversionClient.processItems, processBatch,          *)
(* RequestHandler.makeRequest), the socket job tracker (SocketService),    *)
(* the conversionStatus / conversionResult / files stores and the          *)
(* orchestrator entry points startConversion and cancelConversion.         *)
(*                                                                         *)
(* JavaScript runs one task at a time: every action below is one task of   *)
(* the event loop together with the microtasks (await continuations) it    *)
(* triggers.  The suspension points that let other tasks in are the HTTP   *)
(* fetch of a dispatch request, the artifact fetch and the socket events.  *)
(***************************************************************************)
EXTENDS Integers, Sequences, FiniteSets, TLC

(* ------------------------------ bounds --------------------------------- *)
MaxItems == 2        \* items in the files store
MaxListeners == 2    \* listeners per job event a reconnect may still add to
MaxEvents == 2       \* what the channel delivers in one run: job events and drops
MaxCalls == 3        \* calls on the result store in StoreSpec

(* --------------------------- configuration ----------------------------- *)
\* CONFIG.FILES.CATEGORIES
CategoriesDocuments == {"pdf", "docx", "pptx"}
CategoriesAudio == {"mp3", "wav", "ogg", "m4a", "aac", "wma"}
CategoriesVideo == {"mp4", "mov", "avi", "mkv", "webm"}
CategoriesData == {"csv", "xlsx"}
\* CONFIG.FILES.API_REQUIRED
API_REQUIRED == {"mp3", "wav", "m4a", "mp4", "webm", "avi"}

\* what FileUploader puts in the `type` field of a store entry: the extension
\* of an uploaded file (handleFilesAdded), or 'url' / 'parent' (handleUrlSubmit)
RawTypes == {"pdf", "csv", "mp3", "mp4", "url", "parent"}

NoJob == 0                    \* an absent jobId (undefined)
Undefined == -1               \* an absent numeric field (undefined)
NoError == "null"             \* error: null
NoResult == [jobId |-> NoJob, item |-> 0]

MaxJobs == MaxItems           \* one conversion: at most one job per item
JobIds == 1..MaxJobs
JobKeys == JobIds \cup {NoJob}  \* what subscribeToJob may be called with
ItemIds == 1..MaxItems
ProgressValues == {25, 40}    \* data.progress of a progress event
Families == {"status", "progress", "complete", "error"}   \* SOCKET_EVENTS.JOB_*
Locators == {"downloadUrl", "alt", "none"}   \* where a complete event carries its URL

\* error messages (ConversionError.message / Error.message)
MsgNoFiles == "No files available for conversion."
MsgApiKey == "API key is required for this file type"
MsgSize == "File size exceeds limit"
MsgUnsupported == "Unsupported file type"
MsgNoJobId == "No job ID received from server"
MsgFormData == "File data is missing from FormData"
MsgResponse == "Failed to process server response"
MsgApi == "Request failed"
MsgNetwork == "Network error - please check your connection or CORS settings"
MsgAbort == "Request timeout"
MsgJobError == "job error"
MsgNoLocator == "No download URL provided in completion data"
MsgDownload == "Failed to download converted file"

(* ------------------------------- URLs ---------------------------------- *)
\* A URL string is kept as its components, each a sequence of tokens: scheme
\* and host are one token, the path is a sequence of "/" and segment tokens,
\* the query a sequence of tokens without its "?".
ToLowerCase(token) ==
  CASE token = "HTTP" -> "http"
    [] token = "Example.com" -> "example.com"
    [] token = "Path" -> "path"
    [] token = "Q=A" -> "q=a"
    [] OTHER -> token

\* String.prototype.toLowerCase on a token sequence
LowerAll(tokens) == [i \in 1..Len(tokens) |-> ToLowerCase(tokens[i])]

\* pathname.replace(/\/+$/, '')
RECURSIVE StripTrailingSlashes(_)
StripTrailingSlashes(path) ==
  IF path # <<>> /\ path[Len(path)] = "/"
  THEN StripTrailingSlashes(SubSeq(path, 1, Len(path) - 1))
  ELSE path

\* new URL(raw) for an http URL: scheme and host are lower-cased, an empty
\* path is "/", path and query keep their case
ParseUrl(raw) ==
  [scheme |-> ToLowerCase(raw.scheme), host |-> ToLowerCase(raw.host),
   path |-> IF raw.path = <<>> THEN <<"/">> ELSE raw.path, query |-> raw.query]

\* the pathname setter of an http URL: an empty value gives the path "/"
SetPathname(urlObj, value) ==
  [urlObj EXCEPT !.path = IF value = <<>> THEN <<"/">> ELSE value]

\* urlObj.href as a token sequence
Href(urlObj) ==
  <<urlObj.scheme, "://", urlObj.host>> \o urlObj.path \o
  (IF urlObj.query = <<>> THEN <<>> ELSE <<"?">> \o urlObj.query)

\* variant of normalizeUrl that removes one trailing slash only
normalizeUrl_stripsOneSlash(rawUrl) ==
  LET urlObj == ParseUrl(rawUrl)
      p == urlObj.path
      normalizedPath == LowerAll(IF p[Len(p)] = "/" THEN SubSeq(p, 1, Len(p) - 1) ELSE p)
      set == SetPathname(urlObj, normalizedPath)
  IN [scheme |-> ToLowerCase(set.scheme), host |-> ToLowerCase(set.host),
      path |-> LowerAll(set.path), query |-> LowerAll(set.query)]

\* prepareItem: new URL(rawUrl), pathname without trailing slashes and in
\* lower case, then href.toLowerCase(); the result is the URL that string
\* denotes
normalizeUrl(rawUrl) ==
  LET urlObj == ParseUrl(rawUrl)
      normalizedPath == LowerAll(StripTrailingSlashes(urlObj.path))
      set == SetPathname(urlObj, normalizedPath)
  IN [scheme |-> ToLowerCase(set.scheme), host |-> ToLowerCase(set.host),
      path |-> LowerAll(set.path), query |-> LowerAll(set.query)]

NoUrl == [scheme |-> "", host |-> "", path |-> <<>>, query |-> <<>>]
PlainUrl == [scheme |-> "http", host |-> "example.com",
             path |-> <<"/", "path">>, query |-> <<>>]

\* item options: baseItem.options, what a parent item adds, and the spread
\* {...baseItem.options, ...extras, ...item.options}
BaseOptions == [includeImages |-> TRUE, includeMeta |-> TRUE, convertLinks |-> TRUE]
ParentOptions == [depth |-> 1, maxPages |-> 10]
NoOptions == <<>>

(* ------------------------------- names --------------------------------- *)
\* An item name is a sequence of tokens: segments separated by "." tokens.
NoName == <<>>                         \* an absent name (undefined)
DocName(extension) == <<"doc", ".", extension>>   \* file.name of an uploaded file
HostName == <<"example", ".", "com">>  \* newUrl.hostname of PlainUrl
TimestampedMd == <<"document_", "timestamp", ".", "md">>
TimestampedZip == <<"conversion_", "timestamp", ".", "zip">>

\* the regular expression /\.[^/.]+$/ matches: a "." followed, up to the end,
\* by one segment
HasExtension(name) ==
  Len(name) >= 2 /\ name[Len(name) - 1] = "." /\ name[Len(name)] # "."

\* originalName.replace(/\.[^/.]+$/, '.md')
replaceExtension(name) ==
  IF HasExtension(name) THEN SubSeq(name, 1, Len(name) - 2) \o <<".", "md">> ELSE name

(* --------------------------- item normaliser --------------------------- *)
determineFileType(extension) ==
  IF extension \in CategoriesAudio THEN "audio"
  ELSE IF extension \in CategoriesVideo THEN "video"
  ELSE IF extension \in CategoriesDocuments THEN "document"
  ELSE IF extension \in CategoriesData THEN "data"
  ELSE "null"

\* prepareItem(item): the prepared copy, or the validation error it throws.
\* The copy is a new object: it has no status and no jobId of the store entry.
\* ext is the extension of item.name; isFile and oversize describe item.file.
prepareItem(item, key) ==
  IF item.isFile
  THEN LET fileExt == item.ext
           type == determineFileType(fileExt)
       IN IF item.oversize THEN [ok |-> FALSE, error |-> MsgSize]
          ELSE IF type = "null" THEN [ok |-> FALSE, error |-> MsgUnsupported]
          ELSE IF fileExt \in API_REQUIRED /\ ~key
                 THEN [ok |-> FALSE, error |-> MsgApiKey]
          ELSE [ok |-> TRUE,
                item |-> [id |-> item.id, name |-> item.name, type |-> type, ext |-> fileExt,
                          isFile |-> TRUE, oversize |-> FALSE, url |-> NoUrl,
                          options |-> BaseOptions, jobId |-> NoJob]]
  ELSE \* item.type === 'url' || item.type === 'parent' || item.url
       [ok |-> TRUE,
        item |-> [id |-> item.id, name |-> item.name,
                  type |-> IF item.type = "parent" THEN "parent" ELSE "url",
                  ext |-> "", isFile |-> FALSE, oversize |-> FALSE,
                  url |-> normalizeUrl(item.url),
                  options |-> item.options @@
                              (IF item.type = "parent" THEN ParentOptions ELSE NoOptions)
                              @@ BaseOptions,
                  jobId |-> NoJob]]

\* Promise.all over prepareItem: prepareItem never suspends, so the first
\* rejection is the one of the lowest failing index
RECURSIVE FirstFailure(_, _, _)
FirstFailure(items, key, i) ==
  IF i > Len(items) THEN 0
  ELSE IF ~prepareItem(items[i], key).ok THEN i
  ELSE FirstFailure(items, key, i + 1)

\* variant of prepareBatchItems that drops the items prepareItem rejects and
\* goes on with the rest
prepareBatchItems_dropsRejected(items, key) ==
  LET good == SelectSeq(items, LAMBDA it : prepareItem(it, key).ok)
  IN IF Len(items) = 0 THEN [ok |-> FALSE, error |-> MsgNoFiles, items |-> <<>>]
     ELSE [ok |-> TRUE, error |-> NoError,
           items |-> [i \in 1..Len(good) |-> prepareItem(good[i], key).item]]

prepareBatchItems(items, key) ==
  LET bad == FirstFailure(items, key, 1)
  IN IF Len(items) = 0 THEN [ok |-> FALSE, error |-> MsgNoFiles, items |-> <<>>]
     ELSE IF bad # 0
       THEN [ok |-> FALSE, error |-> prepareItem(items[bad], key).error, items |-> <<>>]
     ELSE [ok |-> TRUE, error |-> NoError,
           items |-> [i \in 1..Len(items) |-> prepareItem(items[i], key).item]]

\* startConversion: useBatch option passed to processItems
useBatch(items) ==
  Len(items) > 1 /\ ~(\A i \in 1..Len(items) : items[i].type = "document")

(* --------------------------- endpoint choice --------------------------- *)
\* the getEndpoint option startConversion builds; processItems does not read it
getEndpoint(item) ==
  IF item.type = "audio" THEN "/multimedia/audio"
  ELSE IF item.type = "video" THEN "/multimedia/video"
  ELSE IF item.type = "url" THEN "/web/url"
  ELSE IF item.type = "parent" THEN "/web/parent-url"
  ELSE "/document/file"

\* variant of getItemType that takes an item of no known type for a file
getItemType_defaultsToFile(item) ==
  LET fileType == item.ext
  IN IF item.type = "audio" \/ fileType \in CategoriesAudio THEN "audio"
     ELSE IF item.type = "video" \/ fileType \in CategoriesVideo THEN "video"
     ELSE IF item.type = "url" THEN "url"
     ELSE IF item.type = "parent" THEN "parent"
     ELSE IF item.type = "youtube" THEN "youtube"
     ELSE "file"

\* ConversionClient.getItemType: the type, or "throw" for the ConversionError
getItemType(item) ==
  LET fileType == item.ext
  IN IF item.type = "audio" \/ fileType \in CategoriesAudio THEN "audio"
     ELSE IF item.type = "video" \/ fileType \in CategoriesVideo THEN "video"
     ELSE IF item.type = "url" THEN "url"
     ELSE IF item.type = "parent" THEN "parent"
     ELSE IF item.type = "youtube" THEN "youtube"
     ELSE IF fileType \in CategoriesDocuments THEN "file"
     ELSE "throw"

\* ConversionClient.getDefaultEndpoint: ENDPOINTS.* by type, "throw" when
\* getItemType throws
getDefaultEndpoint(item) ==
  LET type == getItemType(item)
  IN CASE type = "throw" -> "throw"
       [] type = "audio" -> "/multimedia/audio"
       [] type = "video" -> "/multimedia/video"
       [] type = "url" -> "/web/url"
       [] type = "parent" -> "/web/parent-url"
       [] type = "youtube" -> "/web/youtube"
       [] OTHER -> "/document/file"

(* ------------------------------- stores -------------------------------- *)
\* conversionStatus.js initialState; byJob / byItem are the dynamic keys
\* status[jobId] and status[item.id] the tracking callbacks add to the store
initialState ==
  [status |-> "ready", progress |-> 0, error |-> NoError,
   completedCount |-> 0, errorCount |-> 0, byJob |-> <<>>, byItem |-> <<>>]

EmptyEntry == [status |-> "undefined", progress |-> Undefined]

setStatus(cs, status) == [cs EXCEPT !.status = status]

setProgress(cs, progress) == [cs EXCEPT !.progress = progress]

\* variant of setError that sets the status and forgets the message
setError_statusOnly(cs, error) ==
  [cs EXCEPT !.status = IF error \notin {NoError, ""} THEN "error" ELSE @]

\* a falsy error (null, or the empty message) leaves the status alone
setError(cs, error) ==
  [cs EXCEPT !.error = error,
             !.status = IF error \notin {NoError, ""} THEN "error" ELSE @]

\* variant of setEntry that writes from a snapshot of the initial state
\* instead of the current one
setEntry_staleSnapshot(entries, key, field, value) ==
  (key :> [EmptyEntry EXCEPT ![field] = value])

\* conversionStatus.update(status => ({...status, [key]: {...status[key], field: value}}))
setEntry(entries, key, field, value) ==
  LET cur == IF key \in DOMAIN entries THEN entries[key] ELSE EmptyEntry
  IN (key :> [cur EXCEPT ![field] = value]) @@ entries

\* files.updateFile(id, patch): merge the patch into the entry with that id
updateFile(fs, id, patch) ==
  [i \in DOMAIN fs |-> IF fs[i].id = id THEN patch @@ fs[i] ELSE fs[i]]

\* onItemComplete option startConversion passes to processItems
onItemComplete(fs, itemId, success, error) ==
  updateFile(fs, itemId,
             [status |-> IF success THEN "completed" ELSE "error", error |-> error])

\* conversionResult store: writable(null), setResult: set(result),
\* clearResult: set(null)
NullResult == [contentType |-> "null", item |-> 0, name |-> NoName]

\* variant of setResult that keeps a result already stored
setResult_keepsExisting(store, result) == IF store = NullResult THEN result ELSE store

setResult(store, result) == result

clearResult(store) == NullResult

(* ---------------------------- socket service --------------------------- *)
NoListeners == [f \in Families |-> <<>>]

\* SocketService after construction: socket = null, connected = false.
\* socket is "null" or the state of the socket.io connection ("opening" until
\* the first connect event, then "open" / "closed"); listeners are the
\* socket.on registrations per job and event family, in registration order
newSocketService ==
  [socket |-> "null", connected |-> FALSE, jobSubscriptions |-> <<>>,
   listeners |-> [j \in JobKeys |-> NoListeners]]

connect(ss) == IF ss.socket # "null" THEN ss ELSE [ss EXCEPT !.socket = "opening"]

\* jobSubscriptions.set(jobId, callbacks) and one socket.on per event family
subscribeToJob(ss, jobId, callbacks) ==
  IF ss.socket = "null" THEN ss
  ELSE [ss EXCEPT !.jobSubscriptions = (jobId :> callbacks) @@ @,
                  !.listeners[jobId] = [f \in Families |-> Append(@[f], callbacks)]]

\* socket.off of the four events and jobSubscriptions.delete(jobId)
_cleanupJobSubscription(ss, jobId) ==
  IF ss.socket = "null" THEN ss
  ELSE [ss EXCEPT !.listeners[jobId] = NoListeners,
                  !.jobSubscriptions =
                     [j \in (DOMAIN @) \ {jobId} |-> @[j]]]

unsubscribeFromJob(ss, jobId) ==
  IF ss.socket = "null" THEN ss ELSE _cleanupJobSubscription(ss, jobId)

RECURSIVE ResubscribeAll(_, _)
ResubscribeAll(ss, todo) ==
  IF todo = {} THEN ss
  ELSE LET jobId == CHOOSE j \in todo : TRUE
       IN ResubscribeAll(subscribeToJob(ss, jobId, ss.jobSubscriptions[jobId]),
                         todo \ {jobId})

_resubscribeToJobs(ss) == ResubscribeAll(ss, DOMAIN ss.jobSubscriptions)

\* the two callback sets a job is subscribed with: the one processItems
\* registers ("client") and the one startConversion registers ("manager")
ClientCallbacks(itemId) == [owner |-> "client", item |-> itemId]
ManagerCallbacks(itemId) == [owner |-> "manager", item |-> itemId]

(* ------------------------ job event handlers --------------------------- *)
\* The stores a job event handler writes: w = [files, cs, fetches], where
\* fetches counts, per item, the artifact fetches started and not yet settled.

\* callbacks.onStatus
onStatus(w, callbacks, data) ==
  IF callbacks.owner = "manager"
  THEN [w EXCEPT !.cs.byItem = setEntry(@, callbacks.item, "status", data)]
  ELSE w

\* callbacks.onProgress: processItems forwards data.progress to the onProgress
\* option (conversionStatus.setProgress); startConversion records it per item
onProgress(w, callbacks, data) ==
  IF callbacks.owner = "manager"
  THEN [w EXCEPT !.cs.byItem = setEntry(@, callbacks.item, "progress", data)]
  ELSE [w EXCEPT !.cs = setProgress(@, data)]

\* callbacks.onComplete: processItems reports the item complete; startConversion
\* looks for a download locator and starts the artifact fetch
onComplete(w, callbacks, locator) ==
  IF callbacks.owner = "client"
  THEN [w EXCEPT !.files = onItemComplete(@, callbacks.item, TRUE, NoError)]
  ELSE IF locator \in {"downloadUrl", "alt"}
  THEN [w EXCEPT !.fetches[callbacks.item] = @ + 1]
  ELSE [w EXCEPT !.files = updateFile(@, callbacks.item,
                                      [status |-> "error", error |-> MsgNoLocator])]

\* callbacks.onError
onError(w, callbacks, message) ==
  IF callbacks.owner = "client"
  THEN [w EXCEPT !.files = onItemComplete(@, callbacks.item, FALSE, message)]
  ELSE [w EXCEPT !.files = updateFile(@, callbacks.item,
                                      [status |-> "error", error |-> message])]

\* one listener registered by subscribeToJob runs: the callback, then (status
\* and progress) the handler's own update of status[jobId]
JobListener(w, callbacks, family, jobId, data) ==
  CASE family = "status" ->
         [onStatus(w, callbacks, data) EXCEPT
            !.cs.byJob = setEntry(@, jobId, "status", data)]
    [] family = "progress" ->
         [onProgress(w, callbacks, data) EXCEPT
            !.cs.byJob = setEntry(@, jobId, "progress", data)]
    [] family = "complete" -> onComplete(w, callbacks, data)
    [] OTHER -> onError(w, callbacks, data)

\* the emitter calls every listener registered when the event arrives, in
\* registration order (a socket.off during the call does not stop the others)
RECURSIVE Emit(_, _, _, _, _)
Emit(w, registered, family, jobId, data) ==
  IF registered = <<>> THEN w
  ELSE Emit(JobListener(w, Head(registered), family, jobId, data),
            Tail(registered), family, jobId, data)

(* ------------------------------ dispatch ------------------------------- *)
\* the body processItems builds for one item: multipart form data with the
\* file under 'file' for a file item, JSON for a URL or parent URL item
itemRequestBody(item) ==
  [formData |-> item.isFile, fileFields |-> IF item.isFile THEN {"file"} ELSE {}]

\* the body processBatch builds: every file under 'files', the URL items as
\* the JSON text field 'items'
\* (files: the ids of the items appended under 'files'; items: the ids of the
\* entries of the 'items' array, in order)
batchRequestBody(items) ==
  LET fileItems == SelectSeq(items, LAMBDA it : it.isFile)
      urlItems == SelectSeq(items, LAMBDA it : ~it.isFile /\ (it.url # NoUrl \/ it.type = "url"))
  IN [formData |-> TRUE,
      fileFields |-> IF fileItems # <<>> THEN {"files"} ELSE {},
      files |-> [i \in 1..Len(fileItems) |-> fileItems[i].id],
      items |-> [i \in 1..Len(urlItems) |-> urlItems[i].id]]

\* RequestHandler.makeRequest before the fetch: a FormData body must hold a
\* File under 'file'; the result is the message of the error thrown, or NoError
makeRequestCheck(body) ==
  IF body.formData /\ "file" \notin body.fileFields THEN MsgFormData ELSE NoError

\* what processItems throws for one item before any request is sent
itemDispatchError(item) ==
  IF getDefaultEndpoint(item) = "throw" THEN MsgUnsupported
  ELSE makeRequestCheck(itemRequestBody(item))

\* the request of an item when processItems suspends: "unsent" when the
\* endpoint lookup threw (makeRequest is never called), "rejected" when
\* makeRequest threw before the fetch, else "inflight"
itemRequestState(item) ==
  IF getDefaultEndpoint(item) = "throw" THEN "unsent"
  ELSE IF makeRequestCheck(itemRequestBody(item)) # NoError THEN "rejected"
  ELSE "inflight"

\* the endpoint makeRequest is called with for an item, "none" when the
\* endpoint lookup threw
itemEndpoint(item) ==
  IF getDefaultEndpoint(item) = "throw" THEN "none" ELSE getDefaultEndpoint(item)

\* variant of onRequestAccepted that reports the item complete as soon as its
\* request is accepted
onRequestAccepted_reportsComplete(fs, itemId) == onItemComplete(fs, itemId, TRUE, NoError)

\* processItems after an accepted request: item.jobId is set, the job is
\* subscribed and {jobId, item} returned; nothing is reported for the item
onRequestAccepted(fs, itemId) == fs

\* how a request that was sent ends
Outcomes == {"okJob", "okNoJob", "okNotSuccess", "httpError", "networkError", "timeout"}

\* variant of responseError without the `if (!jobId) throw` of processItems
responseError_noJobIdCheck(outcome) ==
  CASE outcome = "okNotSuccess" -> MsgResponse
    [] outcome = "httpError" -> MsgApi
    [] outcome = "networkError" -> MsgNetwork
    [] outcome = "timeout" -> ""
    [] OTHER -> NoError

\* the error of the rejected item promise, by the way the request ended:
\*  okNoJob       2xx, success: true, no jobId   (processItems throws)
\*  okNotSuccess  2xx JSON without success: true (_handleResponse throws)
\*  httpError     non-2xx                        (_handleResponse throws)
\*  networkError  fetch rejects with 'Failed to fetch'
\*  timeout       controller.abort('Request timeout'): fetch rejects with the
\*                abort reason, which has no message
responseError(outcome) ==
  CASE outcome = "okNoJob" -> MsgNoJobId
    [] outcome = "okNotSuccess" -> MsgResponse
    [] outcome = "httpError" -> MsgApi
    [] outcome = "networkError" -> MsgNetwork
    [] outcome = "timeout" -> ""
    [] OTHER -> NoError

\* error.code of the error processItems rejects with: the ConversionError of
\* makeRequest / _handleResponse, or the ConversionError (default code) that
\* processItems throws itself or wraps a non-ConversionError in; an aborted
\* fetch rejects with the abort reason, which is not a ConversionError
responseErrorCode(outcome) ==
  CASE outcome = "okNoJob" -> "CONVERSION_ERROR"
    [] outcome = "okNotSuccess" -> "RESPONSE_ERROR"
    [] outcome = "httpError" -> "API_ERROR"
    [] outcome = "networkError" -> "NETWORK_ERROR"
    [] outcome = "timeout" -> "CONVERSION_ERROR"
    [] OTHER -> "none"

\* ErrorUtils.isRetryable for an error without HTTP status 400
isRetryable(code) == code \in {"NETWORK_ERROR", "API_ERROR", "TIMEOUT_ERROR"}

\* response.jobId of the response processItems reads
responseJobId(outcome, fresh) == IF outcome = "okJob" THEN fresh ELSE NoJob

\* variant of settleResult that fills the slots in completion order and pairs
\* the job with the item of the slot
settleResult_completionOrder(res, i, jobId, itemId) ==
  LET k == CHOOSE n \in DOMAIN res : res[n] = NoResult /\ \A m \in 1..(n - 1) : res[m] # NoResult
  IN [res EXCEPT ![k] = [jobId |-> jobId, item |-> k]]

\* Promise.all: the value of the i-th item promise goes to the i-th slot
settleResult(res, i, jobId, itemId) ==
  [res EXCEPT ![i] = [jobId |-> jobId, item |-> itemId]]

\* error?.message || null, as onItemComplete stores it on the item
itemErrorText(message) == IF message = "" THEN NoError ELSE message

\* onItemComplete(item.id, false, error) for every item of `failed`
RECURSIVE failItems(_, _, _, _)
failItems(fs, items, i, message) ==
  IF i > Len(items) THEN fs
  ELSE failItems(onItemComplete(fs, items[i].id, FALSE, itemErrorText(message)),
                 items, i + 1, message)

\* the catch block of startConversion
conversionFailed(cs, message) == setStatus(setError(cs, message), "error")

\* results.forEach(({jobId, item}) => socketService.subscribeToJob(jobId, {...}))
RECURSIVE subscribeResults(_, _, _)
subscribeResults(ss, res, i) ==
  IF i > Len(res) THEN ss
  ELSE subscribeResults(subscribeToJob(ss, res[i].jobId, ManagerCallbacks(res[i].item)),
                        res, i + 1)

(* ------------------------------- state --------------------------------- *)
VARIABLES
  files,             \* files store: the item list
  apiKey,            \* apiKey store: TRUE when a key is set
  conversionStatus,  \* conversionStatus store
  conversionResult,  \* conversionResult store
  socketService,     \* the SocketService singleton
  conv,              \* the running startConversion call: position, mode, outcome
  prepared,          \* its items array (the prepared copies)
  requests,          \* per prepared item: "unsent", "rejected", "inflight", or
                     \* the way its request ended (an element of Outcomes)
  results,           \* the result slots of Promise.all in processItems
  fetches,           \* per item id: artifact fetches not yet settled
  nextJobId,         \* next job identifier the server hands out
  events,            \* job events and connection drops delivered so far
  storeCalls,        \* StoreSpec: the calls made on the result store so far
  probe,             \* NormSpec: a raw item, a second raw URL, and what
                     \* prepareItem made of them
  ended,             \* the terminal events handled so far: job, family, and
                     \* whether the event carried a download locator
  saved,             \* the file name of the last FileSaver.saveAs call
  sentTo,            \* per prepared item: the path makeRequest was called with
                     \* for it, "none" when it was not called
  lastOp             \* "cancelConversion" right after a mid-flight cancelConversion(),
                     \* "cancelConversionIdle" after another one, "triggerDownload"
                     \* right after a download, "fetchFailed" right after an
                     \* artifact fetch was rejected, "fetchHttpError" right
                     \* after one was answered with an error status, else "other"

vars == <<files, apiKey, conversionStatus, conversionResult, socketService,
          conv, prepared, requests, results, fetches, nextJobId, events,
          storeCalls, probe, ended, saved, sentTo, lastOp>>

\* batch: the makeRequest call of processBatch ("none", "rejected", "inflight")
\* itemCount: $files.length when startConversion was called
NoConversion ==
  [pc |-> "idle", mode |-> "none", outcome |-> "none", batch |-> "none", itemCount |-> 0]

\* a store entry as FileUploader adds it
rawItem(id, type) ==
  [id |-> id, name |-> IF type \in {"url", "parent"} THEN HostName ELSE DocName(type),
   type |-> type, isFile |-> type \notin {"url", "parent"},
   ext |-> IF type \in {"url", "parent"} THEN "" ELSE type,
   url |-> IF type \in {"url", "parent"} THEN PlainUrl ELSE NoUrl,
   options |-> NoOptions,
   oversize |-> FALSE, status |-> "Ready", error |-> NoError, jobId |-> NoJob]

\* nothing was saved yet
NoFile == <<>>

\* prepareItem not applied yet
NotRun == [ok |-> FALSE, error |-> "not run"]
NoProbe == [stage |-> "none", a |-> rawItem(1, "pdf"), b |-> NoUrl,
            once |-> NotRun, onceB |-> NotRun, twice |-> NotRun]

\* everything but the item list and the probe, after module load
InitServices ==
  /\ conversionStatus = initialState
  /\ conversionResult = NullResult
  /\ storeCalls = <<>>
  /\ socketService = newSocketService
  /\ conv = NoConversion
  /\ prepared = <<>>
  /\ requests = <<>>
  /\ results = <<>>
  /\ fetches = [i \in ItemIds |-> 0]
  /\ nextJobId = 1
  /\ events = 0
  /\ ended = {}
  /\ saved = NoFile
  /\ sentTo = <<>>
  /\ lastOp = "other"

Init ==
  /\ \E n \in 0..MaxItems : \E types \in [1..n -> RawTypes] :
       files = [i \in 1..n |-> rawItem(i, types[i])]
  \* the key is read for the files of API_REQUIRED only: a key that no item of
  \* the list needs changes nothing, and those initial states are left out
  /\ apiKey \in BOOLEAN
  /\ apiKey => \E i \in DOMAIN files : files[i].ext \in API_REQUIRED
  /\ InitServices
  /\ probe = NoProbe

(* ------------------------------ actions -------------------------------- *)
\* processItems, per-item mode, up to the first suspension: an item whose
\* endpoint or body is rejected fails before anything is sent
RECURSIVE failUnsent(_, _, _)
failUnsent(fs, items, i) ==
  IF i > Len(items) THEN fs
  ELSE failUnsent(IF itemDispatchError(items[i]) # NoError
                    THEN onItemComplete(fs, items[i].id, FALSE,
                                        itemErrorText(itemDispatchError(items[i])))
                    ELSE fs,
                  items, i + 1)

RECURSIVE firstUnsent(_, _)
firstUnsent(items, i) ==
  IF i > Len(items) THEN 0
  ELSE IF itemDispatchError(items[i]) # NoError THEN i
  ELSE firstUnsent(items, i + 1)

\* startConversion(), from the call to its first suspension on a request (or
\* to its return when nothing is sent).  A behaviour follows one conversion
\* of the item list: the caller does not start a second one.
StartConversion ==
  /\ conv.pc = "idle"
  /\ lastOp' = "other"
  /\ UNCHANGED <<storeCalls, probe, ended, saved>>
  /\ UNCHANGED <<apiKey, conversionResult, fetches, nextJobId, events>>
  /\ IF Len(files) = 0
     THEN /\ conversionStatus' = setStatus(setError(conversionStatus, MsgNoFiles), "error")
          /\ conv' = [NoConversion EXCEPT !.pc = "done", !.outcome = "noItems"]
          /\ prepared' = <<>>
          /\ requests' = <<>>
          /\ results' = <<>>
          /\ sentTo' = <<>>
          /\ UNCHANGED <<files, socketService>>
     ELSE LET prep == prepareBatchItems(files, apiKey)
              items == prep.items
              cs0 == setStatus(initialState, "converting")
              ss0 == IF ~socketService.connected THEN connect(socketService)
                     ELSE socketService
              batchError == makeRequestCheck(batchRequestBody(items))
              bad == firstUnsent(items, 1)
          IN /\ socketService' = ss0
             /\ prepared' = items
             /\ results' = [i \in 1..Len(items) |-> NoResult]
             /\ IF ~prep.ok
                THEN /\ conversionStatus' = conversionFailed(cs0, prep.error)
                     /\ conv' = [NoConversion EXCEPT !.pc = "done", !.outcome = "normFail",
                                                      !.itemCount = Len(files)]
                     /\ requests' = <<>>
                     /\ sentTo' = <<>>
                     /\ UNCHANGED files
                ELSE IF useBatch(items)
                THEN \* processBatch: one makeRequest on '/batch'
                     /\ requests' = [i \in 1..Len(items) |-> "unsent"]
                     /\ sentTo' = [i \in 1..Len(items) |-> "none"]
                     /\ IF batchError # NoError
                        THEN /\ files' = failItems(files, items, 1, batchError)
                             /\ conversionStatus' = conversionFailed(cs0, batchError)
                             /\ conv' = [pc |-> "done", mode |-> "batch",
                                         outcome |-> "dispatchFail",
                                         batch |-> "rejected", itemCount |-> Len(files)]
                        ELSE /\ conversionStatus' = cs0
                             /\ conv' = [pc |-> "dispatching", mode |-> "batch",
                                         outcome |-> "none", batch |-> "inflight",
                                         itemCount |-> Len(files)]
                             /\ UNCHANGED files
                ELSE \* one request per item, all started before any completes
                     /\ requests' = [i \in 1..Len(items) |-> itemRequestState(items[i])]
                     /\ sentTo' = [i \in 1..Len(items) |-> itemEndpoint(items[i])]
                     /\ files' = failUnsent(files, items, 1)
                     /\ IF bad # 0
                        THEN /\ conversionStatus' =
                                  conversionFailed(cs0, itemDispatchError(items[bad]))
                             /\ conv' = [pc |-> "done", mode |-> "perItem",
                                         outcome |-> "dispatchFail", batch |-> "none",
                                         itemCount |-> Len(files)]
                        ELSE /\ conversionStatus' = cs0
                             /\ conv' = [pc |-> "dispatching", mode |-> "perItem",
                                         outcome |-> "none", batch |-> "none",
                                         itemCount |-> Len(files)]

\* the request of prepared item i ends; processItems continues for that item
\* and, when Promise.all settles with it, startConversion continues too
RequestSettle(i, outcome) ==
  /\ i \in DOMAIN requests
  /\ requests[i] = "inflight"
  /\ outcome = "okJob" => nextJobId <= MaxJobs
  /\ requests' = [requests EXCEPT ![i] = outcome]
  /\ nextJobId' = IF outcome = "okJob" THEN nextJobId + 1 ELSE nextJobId
  /\ lastOp' = "other"
  /\ UNCHANGED <<storeCalls, probe, ended, saved, sentTo>>
  /\ UNCHANGED <<apiKey, conversionResult, fetches, events>>
  /\ IF responseError(outcome) = NoError
     THEN LET jobId == responseJobId(outcome, nextJobId)
              item == prepared[i]
              ss1 == subscribeToJob(socketService, jobId, ClientCallbacks(item.id))
              res1 == settleResult(results, i, jobId, item.id)
              awaited == conv.pc = "dispatching"
              all == awaited /\ \A k \in DOMAIN res1 : res1[k] # NoResult
          IN /\ prepared' = [prepared EXCEPT ![i].jobId = jobId]
             /\ results' = IF awaited THEN res1 ELSE results
             /\ socketService' = IF all THEN subscribeResults(ss1, res1, 1) ELSE ss1
             /\ conversionStatus' = IF all THEN setStatus(conversionStatus, "processing")
                                    ELSE conversionStatus
             /\ conv' = IF all THEN [conv EXCEPT !.pc = "done", !.outcome = "ok"]
                        ELSE conv
             /\ files' = onRequestAccepted(files, item.id)
     ELSE /\ files' = onItemComplete(files, prepared[i].id, FALSE,
                                     itemErrorText(responseError(outcome)))
          /\ IF conv.pc = "dispatching"
             THEN /\ conversionStatus' =
                       conversionFailed(conversionStatus, responseError(outcome))
                  /\ conv' = [conv EXCEPT !.pc = "done", !.outcome = "dispatchFail"]
             ELSE UNCHANGED <<conversionStatus, conv>>
          /\ UNCHANGED <<socketService, prepared, results>>

\* socket.io connection events
SocketConnect ==
  /\ socketService.socket = "opening"
  /\ socketService' = [socketService EXCEPT !.socket = "open", !.connected = TRUE]
  /\ lastOp' = "other"
  /\ UNCHANGED <<storeCalls, probe, ended, saved, sentTo>>
  /\ UNCHANGED <<files, apiKey, conversionStatus, conversionResult, conv, prepared,
                 requests, results, fetches, nextJobId, events>>

SocketDisconnect ==
  /\ events < MaxEvents
  /\ socketService.socket = "open"
  /\ socketService' = [socketService EXCEPT !.socket = "closed", !.connected = FALSE]
  /\ events' = events + 1
  /\ lastOp' = "other"
  /\ UNCHANGED <<storeCalls, probe, ended, saved, sentTo>>
  /\ UNCHANGED <<files, apiKey, conversionStatus, conversionResult, conv, prepared,
                 requests, results, fetches, nextJobId>>

\* the reconnect handler: connected = true, then _resubscribeToJobs()
SocketReconnect ==
  /\ socketService.socket = "closed"
  /\ \A j \in DOMAIN socketService.jobSubscriptions :
        Len(socketService.listeners[j]["status"]) < MaxListeners
  /\ socketService' = _resubscribeToJobs(
                        [socketService EXCEPT !.socket = "open", !.connected = TRUE])
  /\ lastOp' = "other"
  /\ UNCHANGED <<storeCalls, probe, ended, saved, sentTo>>
  /\ UNCHANGED <<files, apiKey, conversionStatus, conversionResult, conv, prepared,
                 requests, results, fetches, nextJobId, events>>

\* the server emits an event of one family for one job
JobEvent(jobId, family, data) ==
  /\ events < MaxEvents
  /\ socketService.socket = "open"
  /\ socketService.listeners[jobId][family] # <<>>
  /\ LET w == Emit([files |-> files, cs |-> conversionStatus, fetches |-> fetches],
                   socketService.listeners[jobId][family], family, jobId, data)
     IN /\ files' = w.files
        /\ conversionStatus' = w.cs
        /\ fetches' = w.fetches
  /\ socketService' = IF family \in {"complete", "error"}
                      THEN _cleanupJobSubscription(socketService, jobId)
                      ELSE socketService
  /\ ended' = IF family \in {"complete", "error"}
               THEN ended \cup {[job |-> jobId, family |-> family,
                                   located |-> data \in {"downloadUrl", "alt"}]}
               ELSE ended
  /\ lastOp' = "other"
  /\ UNCHANGED <<storeCalls, probe, saved, sentTo>>
  /\ events' = events + 1
  /\ UNCHANGED <<apiKey, conversionResult, conv, prepared, requests, results, nextJobId>>

JobStatusEvent(jobId) == JobEvent(jobId, "status", "processing")
JobProgressEvent(jobId, progress) == JobEvent(jobId, "progress", progress)
JobCompleteEvent(jobId, locator) == JobEvent(jobId, "complete", locator)
JobErrorEvent(jobId) == JobEvent(jobId, "error", MsgJobError)

\* an artifact fetch started by onComplete settles: response.blob() is stored
\* whatever the HTTP status; a rejected fetch marks the item
FetchOutcomes == {"ok", "httpError", "networkError"}
ContentTypes == {"text/markdown", "application/zip"}

\* the prepared item the callbacks of startConversion close over
PreparedOf(itemId) == prepared[CHOOSE k \in DOMAIN prepared : prepared[k].id = itemId]

FetchSettle(itemId, outcome, contentType) ==
  /\ fetches[itemId] > 0
  /\ fetches' = [fetches EXCEPT ![itemId] = @ - 1]
  /\ IF outcome = "networkError"
     THEN /\ files' = updateFile(files, itemId,
                                 [status |-> "error", error |-> MsgDownload])
          /\ lastOp' = "fetchFailed"
          /\ UNCHANGED conversionResult
     ELSE /\ conversionResult' =
               setResult(conversionResult,
                         [contentType |-> IF outcome = "ok" THEN contentType
                                          ELSE "application/json",
                          item |-> itemId, name |-> PreparedOf(itemId).name])
          /\ files' = updateFile(files, itemId, [status |-> "completed"])
          /\ lastOp' = IF outcome = "httpError" THEN "fetchHttpError" ELSE "other"
  /\ UNCHANGED <<storeCalls, probe, ended, saved, sentTo>>
  /\ UNCHANGED <<apiKey, conversionStatus, socketService, conv, prepared, requests,
                 results, nextJobId, events>>

\* socketService.unsubscribeFromJob(file.jobId) for every store entry with a jobId
RECURSIVE unsubscribeFiles(_, _, _)
unsubscribeFiles(ss, fs, i) ==
  IF i > Len(fs) THEN ss
  ELSE unsubscribeFiles(IF fs[i].jobId # NoJob THEN unsubscribeFromJob(ss, fs[i].jobId)
                        ELSE ss,
                        fs, i + 1)

\* ConversionClient.controller: no constructor, method or caller assigns it
ClientController == "null"

\* ConversionClient.cancelRequests(): abort through this.controller when there
\* is one; every makeRequest call has its own controller, which
\* cancelRequests cannot reach
cancelRequests(controller, reqs) ==
  IF controller # "null"
  THEN [i \in DOMAIN reqs |-> IF reqs[i] = "inflight" THEN "aborted" ELSE reqs[i]]
  ELSE reqs

\* a conversion is mid-flight: a request was accepted and a job is subscribed
MidFlight ==
  /\ \E i \in DOMAIN requests : requests[i] = "okJob"
  /\ DOMAIN socketService.jobSubscriptions # {}

\* cancelConversion(), called while the conversion is going on;
\* client.cancelRequests() finds no controller to abort
CancelConversion ==
  /\ conversionStatus.status \in {"converting", "processing"}
  /\ conversionStatus' = setStatus(conversionStatus, "cancelled")
  /\ socketService' = unsubscribeFiles(socketService, files, 1)
  /\ files' = [i \in DOMAIN files |->
                 IF files[i].status = "converting"
                 THEN [files[i] EXCEPT !.status = "cancelled"] ELSE files[i]]
  /\ lastOp' = IF MidFlight THEN "cancelConversion" ELSE "cancelConversionIdle"
  /\ UNCHANGED <<storeCalls, probe, ended, saved, sentTo>>
  /\ requests' = cancelRequests(ClientController, requests)
  /\ UNCHANGED <<apiKey, conversionResult, conv, prepared, results,
                 fetches, nextJobId, events>>

\* files.clearFiles(): the store is emptied
clearFiles(fs) == <<>>

\* triggerDownload: the file name for the stored result
downloadName(result) ==
  IF result.contentType = "text/markdown"
  THEN IF result.name # NoName THEN replaceExtension(result.name) ELSE TimestampedMd
  ELSE TimestampedZip

\* triggerDownload() with a result in the store: the blob is saved and the
\* files store cleared; without a result it returns at once
TriggerDownload ==
  /\ conversionResult # NullResult
  /\ saved' = downloadName(conversionResult)
  /\ files' = clearFiles(files)
  /\ lastOp' = "triggerDownload"
  /\ UNCHANGED <<storeCalls, probe, ended, sentTo>>
  /\ UNCHANGED <<apiKey, conversionStatus, conversionResult, socketService, conv,
                 prepared, requests, results, fetches, nextJobId, events>>

Next ==
  \/ StartConversion
  \/ \E i \in ItemIds, outcome \in Outcomes : RequestSettle(i, outcome)
  \/ SocketConnect
  \/ SocketDisconnect
  \/ SocketReconnect
  \/ \E j \in JobIds : JobStatusEvent(j)
  \/ \E j \in JobIds, p \in ProgressValues : JobProgressEvent(j, p)
  \/ \E j \in JobIds, l \in Locators : JobCompleteEvent(j, l)
  \/ \E j \in JobIds : JobErrorEvent(j)
  \/ \E i \in ItemIds, o \in FetchOutcomes, t \in ContentTypes : FetchSettle(i, o, t)
  \/ CancelConversion
  \/ TriggerDownload

Spec == Init /\ [][Next]_vars

\* The same program with what the event loop and the network guarantee: a
\* request or an artifact fetch in flight settles, a socket that is opening
\* connects, and a subscribed job gets its complete or error event while the
\* connection is open.  Nothing makes the user cancel or download.
FairSpec ==
  /\ Spec
  /\ WF_vars(\E i \in ItemIds, outcome \in Outcomes : RequestSettle(i, outcome))
  /\ WF_vars(\E i \in ItemIds, o \in FetchOutcomes, t \in ContentTypes : FetchSettle(i, o, t))
  /\ WF_vars(SocketConnect)
  /\ WF_vars(\E j \in JobIds : (\E l \in Locators : JobCompleteEvent(j, l)) \/ JobErrorEvent(j))

(* ------------------- the result store on its own ----------------------- *)
\* what setResult can be called with: the blob type and the item of a
\* finished artifact fetch
StoredNames == {DocName("pdf"), HostName, <<"localhost">>}
StoredResults ==
  [contentType : ContentTypes \cup {"application/json"}, item : ItemIds,
   name : StoredNames]

SetResult(result) ==
  /\ Len(storeCalls) < MaxCalls
  /\ conversionResult' = setResult(conversionResult, result)
  /\ storeCalls' = Append(storeCalls, [op |-> "setResult", arg |-> result])
  /\ lastOp' = "other"
  /\ UNCHANGED <<files, apiKey, conversionStatus, socketService, conv, prepared,
                 requests, results, fetches, nextJobId, events, probe, ended, saved, sentTo>>

ClearResult ==
  /\ Len(storeCalls) < MaxCalls
  /\ conversionResult' = clearResult(conversionResult)
  /\ storeCalls' = Append(storeCalls, [op |-> "clearResult", arg |-> NullResult])
  /\ lastOp' = "other"
  /\ UNCHANGED <<files, apiKey, conversionStatus, socketService, conv, prepared,
                 requests, results, fetches, nextJobId, events, probe, ended, saved, sentTo>>

StoreNext == (\E r \in StoredResults : SetResult(r)) \/ ClearResult \/ TriggerDownload

StoreInit ==
  /\ files = <<>>
  /\ apiKey = FALSE
  /\ InitServices
  /\ probe = NoProbe

StoreSpec == StoreInit /\ [][StoreNext]_vars

(* ----------------------- prepareItem on its own ------------------------ *)
\* raw URLs a caller may submit
RawPaths ==
  {<<>>, <<"/">>, <<"/", "path">>, <<"/", "Path">>, <<"/", "path", "/">>,
   <<"/", "Path", "/">>, <<"/", "Path", "/", "/">>}
RawQueries == {<<>>, <<"q=a">>, <<"Q=A">>}
RawUrls ==
  [scheme : {"http", "HTTP"}, host : {"example.com", "Example.com"},
   path : RawPaths, query : RawQueries]

\* raw items: URL and parent URL items with and without options of their
\* own, and files of every category, of an unknown extension, and oversize
ProbeExtensions == {"pdf", "csv", "mp3", "mp4", "exe"}
ProbeItems ==
  {[rawItem(1, t) EXCEPT !.url = u, !.options = o] :
      t \in {"url", "parent"}, u \in RawUrls, o \in {NoOptions, [depth |-> 3]}}
  \cup {[rawItem(1, e) EXCEPT !.oversize = big] : e \in ProbeExtensions, big \in BOOLEAN}

NormInit ==
  /\ files = <<>>
  /\ apiKey \in BOOLEAN
  /\ InitServices
  /\ \E a \in ProbeItems : \E b \in RawUrls \cup {NoUrl} :
        /\ a.isFile <=> b = NoUrl
        /\ probe = [NoProbe EXCEPT !.stage = "raw", !.a = a, !.b = b]

\* prepareItem on the raw item, and on the same item with the second URL
Normalize ==
  /\ probe.stage = "raw"
  /\ probe' = [probe EXCEPT
                 !.stage = "once",
                 !.once = prepareItem(probe.a, apiKey),
                 !.onceB = prepareItem([probe.a EXCEPT !.url = probe.b], apiKey)]
  /\ UNCHANGED <<files, apiKey, conversionStatus, conversionResult, socketService,
                 conv, prepared, requests, results, fetches, nextJobId, events,
                 storeCalls, ended, saved, sentTo, lastOp>>

\* prepareItem on the item it returned
NormalizeAgain ==
  /\ probe.stage = "once"
  /\ probe.once.ok
  /\ probe' = [probe EXCEPT !.stage = "twice",
                            !.twice = prepareItem(probe.once.item, apiKey)]
  /\ UNCHANGED <<files, apiKey, conversionStatus, conversionResult, socketService,
                 conv, prepared, requests, results, fetches, nextJobId, events,
                 storeCalls, ended, saved, sentTo, lastOp>>

NormNext == Normalize \/ NormalizeAgain

NormSpec == NormInit /\ [][NormNext]_vars

(* ------------------------------ properties ----------------------------- *)
\* the jobs the socket service holds a subscription for
ActiveJobs == DOMAIN socketService.jobSubscriptions

\* the progress recorded for a job in the conversionStatus store, 0 when it
\* has reported nothing
RecordedProgress(cs, jobId) ==
  IF jobId \in DOMAIN cs.byJob /\ cs.byJob[jobId].progress # Undefined
  THEN cs.byJob[jobId].progress ELSE 0

RECURSIVE SumProgress(_, _)
SumProgress(cs, jobs) ==
  IF jobs = {} THEN 0
  ELSE LET j == CHOOSE k \in jobs : TRUE
       IN RecordedProgress(cs, j) + SumProgress(cs, jobs \ {j})

\* the store entry of an item ("removed" once the store was cleared)
FileOf(itemId) ==
  IF \E i \in DOMAIN files : files[i].id = itemId
  THEN files[CHOOSE i \in DOMAIN files : files[i].id = itemId]
  ELSE [id |-> itemId, status |-> "removed", error |-> NoError]

\* C1: right after cancelConversion() is called mid-flight, jobSubscriptions is
\* empty, no per-job event listener remains, and every item is completed,
\* error or cancelled.
C1_CancelLeavesNothingActive ==
  lastOp = "cancelConversion" =>
    /\ ActiveJobs = {}
    /\ \A j \in JobKeys : socketService.listeners[j] = NoListeners
    /\ \A i \in DOMAIN files : files[i].status \in {"completed", "error", "cancelled"}

\* C2: every job with a subscription has exactly one listener per event
\* family, whatever subscribeToJob calls and reconnects came before.
C2_OneHandlerSetPerJob ==
  \A j \in ActiveJobs : \A f \in Families : Len(socketService.listeners[j][f]) = 1

\* C3: while a job stays subscribed, the progress recorded for it never goes
\* down from one state to the next.
C3_JobProgressMonotonic ==
  [][\A j \in JobIds :
       (j \in ActiveJobs /\ j \in DOMAIN socketService'.jobSubscriptions)
         => RecordedProgress(conversionStatus', j) >= RecordedProgress(conversionStatus, j)
    ]_vars

\* C4: the aggregate progress is the mean of the recorded progress of the
\* subscribed jobs (up to rounding), and it never decreases in a step that
\* adds no job.
C4_AggregateProgressIsMean ==
  /\ [](ActiveJobs # {} =>
          LET n == Cardinality(ActiveJobs)
              d == n * conversionStatus.progress - SumProgress(conversionStatus, ActiveJobs)
          IN -n < d /\ d < n)
  /\ [][DOMAIN socketService'.jobSubscriptions \subseteq ActiveJobs
          => conversionStatus'.progress >= conversionStatus.progress]_vars

\* prepareItem rejects an item of the files store
NormalizationFails == \E i \in DOMAIN files : ~prepareItem(files[i], apiKey).ok

\* C5: once startConversion has run on a list with an item prepareItem
\* rejects, no request was made for any item (per item or batch), no job
\* exists, and the aggregate status is 'error' with the message of a rejected
\* item recorded.
C5_NormalizationFailureSendsNothing ==
  (conv.pc # "idle" /\ NormalizationFails) =>
    /\ requests = <<>>
    /\ conv.batch = "none"
    /\ nextJobId = 1
    /\ ActiveJobs = {}
    /\ conversionStatus.status = "error"
    /\ \E i \in DOMAIN files :
          /\ ~prepareItem(files[i], apiKey).ok
          /\ conversionStatus.error = prepareItem(files[i], apiKey).error

\* startConversion has failed on a list where one item normalizes and another
\* does not
C5_Witness ==
  /\ conv.outcome = "normFail"
  /\ \E i, k \in DOMAIN files :
        prepareItem(files[i], apiKey).ok /\ ~prepareItem(files[k], apiKey).ok

\* C6: once startConversion has run on an empty list, no request was made, no
\* job is subscribed, no listener is registered, and the aggregate state has
\* status 'error' and a non-null error.
C6_EmptyListFails ==
  (conv.pc # "idle" /\ conv.itemCount = 0) =>
    /\ requests = <<>>
    /\ conv.batch = "none"
    /\ nextJobId = 1
    /\ ActiveJobs = {}
    /\ \A j \in JobKeys : socketService.listeners[j] = NoListeners
    /\ conversionStatus.status = "error"
    /\ conversionStatus.error # NoError

\* startConversion has returned from the empty-list check
C6_Witness == conv.outcome = "noItems" /\ Len(files) = 0 /\ conversionStatus.status = "error"

\* the ways the request of an item can fail
FailedRequest == (Outcomes \ {"okJob"}) \cup {"unsent", "rejected"}

\* C7: when the request of one item has failed and the request of another was
\* accepted, the aggregate status is 'processing' or 'completed', the failed
\* item has status 'error', errorCount is non-zero, and (until the channel
\* delivers a job event) the accepted item's job is subscribed.
C7_ItemFailureIsolated ==
  \A i, k \in DOMAIN requests :
    (requests[i] \in FailedRequest /\ requests[k] = "okJob") =>
      /\ conversionStatus.status \in {"processing", "completed"}
      /\ FileOf(prepared[i].id).status = "error"
      /\ conversionStatus.errorCount > 0
      /\ events = 0 => prepared[k].jobId \in ActiveJobs

\* C8: for a non-empty list of prepared items, a batch request is made, and no
\* per-item request, exactly when there is more than one item and not all are
\* documents; otherwise every item gets its own request and no batch request
\* is made.
C8_BatchExactlyWhenMixed ==
  prepared # <<>> =>
    LET mixed == Len(prepared) > 1 /\ \E i \in DOMAIN prepared : prepared[i].type # "document"
    IN /\ mixed => /\ conv.mode = "batch"
                   /\ conv.batch # "none"
                   /\ \A i \in DOMAIN requests : requests[i] = "unsent"
       /\ ~mixed => /\ conv.mode = "perItem"
                    /\ conv.batch = "none"
                    /\ \A i \in DOMAIN prepared : requests[i] # "unsent"

C11_CancelAbortsInFlightRequests ==
  [][conversionStatus.status = "cancelled" =>
       \A i \in DOMAIN requests : ~(requests[i] = "inflight" /\ requests'[i] = "okJob")
    ]_vars

\* C12: in per-item mode the step that accepts the last request leaves the
\* aggregate status 'processing', whatever job events came before; in batch
\* mode a conversion whose batch request the server did not refuse is not
\* left in 'error'.
C12_DispatchSuccessMovesToProcessing ==
  /\ [][(/\ conv.mode = "perItem"
         /\ \E i \in DOMAIN requests : requests[i] = "inflight" /\ requests'[i] = "okJob"
         /\ \A i \in DOMAIN requests : requests'[i] = "okJob")
          => conversionStatus'.status = "processing"
       ]_vars
  /\ []((conv.mode = "batch" /\ conv.pc = "done"
           /\ \A i \in DOMAIN requests : requests[i] \notin (Outcomes \ {"okJob"}))
          => conversionStatus.status # "error")

\* C13: right after triggerDownload() has saved a result, the result store
\* holds null.
C13_ResultClearedAfterDownload ==
  lastOp = "triggerDownload" => conversionResult = NullResult

\* C14: after any sequence of setResult and clearResult calls the store holds
\* the argument of the last setResult, or null when clearResult came last.
C14_StoreHoldsLastResult ==
  storeCalls # <<>> =>
    LET last == storeCalls[Len(storeCalls)]
    IN conversionResult = IF last.op = "clearResult" THEN NullResult ELSE last.arg

\* setResult was called on a store that already held another result
C14_Witness ==
  /\ Len(storeCalls) >= 2
  /\ storeCalls[Len(storeCalls)].op = "setResult"
  /\ storeCalls[Len(storeCalls) - 1].op = "setResult"
  /\ storeCalls[Len(storeCalls)].arg # storeCalls[Len(storeCalls) - 1].arg
  /\ conversionResult = storeCalls[Len(storeCalls)].arg

\* C15: a request that timed out has surfaced as an error the retry predicate
\* accepts, and its item has status 'error' or the aggregate state records
\* the failure.
C15_TimeoutIsRetryable ==
  \A i \in DOMAIN requests :
    requests[i] = "timeout" =>
      /\ isRetryable(responseErrorCode(requests[i]))
      /\ \/ FileOf(prepared[i].id).status = "error"
         \/ conversionStatus.status = "error"

SameUpToCaseAndSlash(u, v) ==
  /\ ToLowerCase(u.scheme) = ToLowerCase(v.scheme)
  /\ ToLowerCase(u.host) = ToLowerCase(v.host)
  /\ LowerAll(u.query) = LowerAll(v.query)
  /\ StripTrailingSlashes(LowerAll(u.path)) = StripTrailingSlashes(LowerAll(v.path))

\* C17: two URL items whose raw URLs differ only in letter case and in a
\* trailing slash of the path are both accepted and get the same url.
C17_CaseAndSlashCanonical ==
  (probe.stage \in {"once", "twice"} /\ ~probe.a.isFile
     /\ SameUpToCaseAndSlash(probe.a.url, probe.b)) =>
    /\ probe.once.ok
    /\ probe.onceB.ok
    /\ probe.once.item.url = probe.onceB.item.url
    /\ Href(probe.once.item.url) = Href(probe.onceB.item.url)

\* "HTTP://Example.com/Path/" and "http://example.com/path" were normalised
C17_Witness ==
  /\ probe.stage = "once"
  /\ probe.a.url = [scheme |-> "HTTP", host |-> "Example.com",
                    path |-> <<"/", "Path", "/">>, query |-> <<>>]
  /\ probe.b = [scheme |-> "http", host |-> "example.com",
                path |-> <<"/", "path">>, query |-> <<>>]
  /\ Href(probe.once.item.url) = <<"http", "://", "example.com", "/", "path">>
  /\ probe.onceB.item.url = probe.once.item.url

\* C18: the url of an accepted URL or parent URL item is all lower-case and
\* does not end with a slash.
C18_UrlLowerCaseNoTrailingSlash ==
  (probe.stage \in {"once", "twice"} /\ ~probe.a.isFile /\ probe.once.ok) =>
    LET href == Href(probe.once.item.url)
    IN /\ LowerAll(href) = href
       /\ href[Len(href)] # "/"

\* C19: prepareItem applied to an item it returned succeeds and returns that
\* item unchanged.
C19_PrepareItemIdempotent ==
  probe.stage = "twice" => (probe.twice.ok /\ probe.twice.item = probe.once.item)

\* a parent URL item with options of its own whose URL the first pass changed,
\* and a file item, went through prepareItem twice
C19_Witness ==
  /\ probe.stage = "twice"
  /\ \/ /\ probe.a.type = "parent"
        /\ probe.a.options # NoOptions
        /\ probe.once.item.url # probe.a.url
        /\ probe.a.url.path = <<"/", "Path", "/", "/">>
     \/ probe.a.isFile

\* C20: without an API key no audio, video, URL or parent URL item passes
\* prepareItem, so none is among the prepared items and none has a request.
C20_GatedItemsNeedKey ==
  ~apiKey =>
    \A i \in DOMAIN prepared :
       prepared[i].type \notin {"audio", "video", "url", "parent"}

\* a name without its extension (the "." and the last segment), if it has one
Stem(name) == IF HasExtension(name) THEN SubSeq(name, 1, Len(name) - 2) ELSE name

\* C21: right after triggerDownload() has saved a result, the file name is
\* the first source item's name with its extension replaced by '.md' (and it
\* ends in '.md') when the content type is 'text/markdown' and the item has a
\* name, and a timestamped name in every other case.
C21_DownloadNameFromResult ==
  lastOp = "triggerDownload" =>
    IF conversionResult.contentType = "text/markdown" /\ conversionResult.name # NoName
    THEN /\ saved = Stem(conversionResult.name) \o <<".", "md">>
         /\ SubSeq(saved, Len(saved) - 1, Len(saved)) = <<".", "md">>
    ELSE saved \in {TimestampedMd, TimestampedZip}

\* the item kinds that have an endpoint of their own
KnownKinds == {"document", "url", "parent", "audio", "video"}

C23_TerminalEventEndsSubscription ==
  \A e \in ended :
    /\ e.job \notin ActiveJobs
    /\ socketService.listeners[e.job] = NoListeners

StatusIn(fs, itemId) ==
  IF \E i \in DOMAIN fs : fs[i].id = itemId
  THEN fs[CHOOSE i \in DOMAIN fs : fs[i].id = itemId].status
  ELSE "removed"

\* the prepared item a job was created for
ItemOfJob(jobId) ==
  prepared[CHOOSE k \in DOMAIN prepared : prepared[k].jobId = jobId].id

\* what a failure for one item must do: the item (when the store still holds
\* it) gets status 'error'; the aggregate status, the other items and the
\* other jobs' subscriptions and listeners stay as they are
OnlyItemFails(itemId, jobId) ==
  /\ StatusIn(files, itemId) # "removed" => StatusIn(files', itemId) = "error"
  /\ conversionStatus'.status = conversionStatus.status
  /\ \A other \in ItemIds \ {itemId} : StatusIn(files', other) = StatusIn(files, other)
  /\ \A j \in JobIds \ {jobId} :
        /\ j \in ActiveJobs <=> j \in DOMAIN socketService'.jobSubscriptions
        /\ socketService'.listeners[j] = socketService.listeners[j]

\* C25: a step that handles a complete event with a locator (downloadUrl or an
\* alternate field) starts the artifact fetch of the job's item; a step that
\* handles a complete event without locator, or in which an artifact fetch is
\* rejected, sets that item's status to 'error' and leaves the aggregate
\* status, the other items and the other jobs' subscriptions unchanged.
C25_ArtifactFailureIsItemLevel ==
  /\ [][\A e \in ended' \ ended :
          e.family = "complete" =>
            IF e.located
            THEN fetches'[ItemOfJob(e.job)] = fetches[ItemOfJob(e.job)] + 1
            ELSE OnlyItemFails(ItemOfJob(e.job), e.job)]_vars
  /\ [][lastOp' = "fetchFailed" =>
          \E i \in ItemIds :
             /\ fetches'[i] = fetches[i] - 1
             /\ OnlyItemFails(i, IF \E k \in DOMAIN prepared : prepared[k].id = i
                                   THEN prepared[CHOOSE k \in DOMAIN prepared :
                                                   prepared[k].id = i].jobId
                                   ELSE NoJob)]_vars

\* the ids of the prepared items that satisfy a test, in order
IdsWhere(Test(_)) ==
  LET chosen == SelectSeq(prepared, Test)
  IN [i \in 1..Len(chosen) |-> chosen[i].id]

\* C26: once startConversion has built a batch request, its body holds every
\* file item once under 'files' and every url or parent item once in the
\* 'items' array, and the request handler has not rejected the request
\* before sending it.
C26_BatchCarriesEveryItem ==
  conv.mode = "batch" =>
    LET body == batchRequestBody(prepared)
    IN /\ body.files = IdsWhere(LAMBDA it : it.isFile)
       /\ body.items = IdsWhere(LAMBDA it : it.type \in {"url", "parent"})
       /\ Len(body.files) + Len(body.items) = Len(prepared)
       /\ makeRequestCheck(body) = NoError
       /\ conv.batch # "rejected"

\* C27: once cancelConversion() has returned and while the aggregate status
\* is the 'cancelled' it has set, no step changes the status of an item from
\* 'cancelled' to another one, and no step writes the result store.
C27_CancellationIsFinal ==
  [][conversionStatus.status = "cancelled" =>
       /\ conversionResult' = conversionResult
       /\ \A i \in ItemIds :
             StatusIn(files, i) = "cancelled" => StatusIn(files', i) \in {"cancelled", "removed"}
    ]_vars

\* C28: once the status of an item is 'completed' or 'error', no step changes
\* it to another status (until the store is cleared by a download).
C28_TerminalStatusStable ==
  [][\A i \in ItemIds :
       StatusIn(files, i) \in {"completed", "error"} =>
          StatusIn(files', i) \in {StatusIn(files, i), "removed"}
    ]_vars

\* dispatch succeeded, every job of the conversion had its terminal event and
\* no artifact fetch is pending
AllJobsSettled ==
  /\ conv.outcome = "ok"
  /\ \A i \in DOMAIN prepared : \E e \in ended : e.job = prepared[i].jobId
  /\ \A i \in ItemIds : fetches[i] = 0

\* C29: when dispatch has succeeded, every job has had its terminal event and
\* every artifact fetch has settled, the aggregate status eventually is
\* 'completed' with completedCount + errorCount equal to the number of items
\* (unless the user cancels).
C29_ConversionEventuallyCompletes ==
  AllJobsSettled ~>
    \/ conversionStatus.status = "cancelled"
    \/ /\ conversionStatus.status = "completed"
       /\ conversionStatus.completedCount + conversionStatus.errorCount = Len(prepared)

\* C30: a step in which an artifact fetch is answered with an error status
\* leaves the result store as it was and the item of the fetch in 'error'.
C30_ErrorResponseIsNotAResult ==
  [][lastOp' = "fetchHttpError" =>
       /\ conversionResult' = conversionResult
       /\ \E i \in ItemIds :
             /\ fetches'[i] = fetches[i] - 1
             /\ StatusIn(files', i) \in {"error", "removed"}
    ]_vars

====
